---------------------------- MODULE Spec2Model ----------------------------
(***************************************************************************)
(* A model of git-autoconfig: its git layer (src/src/git/git.ts) and the   *)
(* extension that polls through it (src/src/extension.ts, config.ts):      *)
(*   - the status parser of Repository.getStatus      (SpecStatus)         *)
(*   - the binary locator findGit                     (SpecFind)           *)
(*   - the process runner Git.exec / exec(child)      (Spec, SpecEnv,      *)
(*                                                     SpecClassify)       *)
(*   - Repository.configGet and Repository.config     (SpecConfig)         *)
(*   - activate, the polling loop and deactivate      (SpecPoll)           *)
(*   - the ignore list operations of config.ts        (SpecIgnore)         *)
(*   - the polling loop with the ignore commands      (SpecIgnored)        *)
(* Every specification uses the same variables; the variables of the       *)
(* components a specification does not run stay at their initial value.    *)
(***************************************************************************)
EXTENDS Integers, Sequences, FiniteSets, TLC

(***************************************************************************)
(* Bounds of the model.                                                    *)
(***************************************************************************)
\* longest arbitrary status text
MaxLen == 5
\* longest list of status records a synthetic text is built from
MaxRecs == 2
\* how far past the end of the text the model follows a cursor
Overrun == 2
\* invocations of the runner
MaxInv == 2
\* 'data' events delivered to the invocations
MaxChunks == 1
\* poll checks the model follows
MaxPolls == 2
\* operations on the ignore list the model follows
MaxOps == 2

\* JavaScript's null exit code (the child was ended by a signal): no process
\* reports a negative exit code, so -1 stands for it
NullCode == -1
ExitCodes == {0, 1, NullCode}
\* JavaScript truthiness of an exit code: `code ? .. : ..`, `if (result.exitCode)`
Truthy(code) == code # 0 /\ code # NullCode

VARIABLES
    \* ---- Repository.getStatus (git.ts 445-483)
    status,     \* executionResult.stdout: the text being parsed, a sequence of characters
    recs,       \* the record list a synthetic text was serialised from (<<>> for arbitrary text)
    i,          \* the cursor (0-based, as in the source)
    nameStart,  \* readName's `start`
    ppc,        \* position of the parser: "loop", "rename", "path", "done"
    current,    \* the entry being decoded
    result,     \* the entries decoded so far
    \* ---- findGit (git.ts 76-165)
    platform,   \* process.platform
    envSet,     \* the names of the process.env variables that are set (the Windows bases)
    hint,       \* findGit's argument
    fpc,        \* position of the locator: "idle", "probe", "which", "xcode", "version", "readdir", "done"
    cand,       \* the candidate whose probe is in flight
    gitPath,    \* findGitDarwin's `path`: what `which git` printed
    first,      \* the promise `first` of findGit
    probes,     \* the subprocesses and directory reads started so far, in order
    found,      \* the promise findGit returned
    settled,    \* the outcomes of the probes and queries that have completed, in order
    \* ---- Git.exec, Repository.exec, exec(child) (git.ts 174-207, 308-411)
    procEnv,    \* process.env
    repoEnv,    \* the Repository handle's env map
    call,       \* per invocation: the arguments of the call (args[0], options.log, options.env)
    callState,  \* per invocation: the promise the call returned: "idle", "pending", "fulfilled", "rejected"
    callValue,  \* per invocation: what that promise settled with
    childEnv,   \* per invocation: options.env as given to cp.spawn
    child,      \* per invocation: which events the child process has emitted
    exitP,      \* per invocation: the first promise of the join (exit or error)
    outP,       \* per invocation: the second promise of the join (stdout closed)
    errP,       \* per invocation: the third promise of the join (stderr closed)
    outBuf,     \* per invocation: the stdout chunks buffered
    errBuf,     \* per invocation: the stderr chunks buffered
    listeners,  \* per invocation: the listeners registered on the child and its streams
    output,     \* per invocation: what the call fired on the onOutput sink, in order
    method,     \* per invocation: the Repository or Git method called, with its arguments
    spawned,    \* the invocations cp.spawn was called for, in order
    \* ---- the extension (extension.ts, config/config.ts)
    activation,     \* position of activate: "inactive", "locating", "active", "failed"
    deactivated,    \* deactivate has been called
    timeoutId,      \* the module variable timeoutId: the timer set last (0: none yet)
    timers,         \* the timers that are armed
    checks,         \* per timer: the run of checkForLocalConfig it started
    ignoreRootList, \* the setting git-autoconfig.ignoreRootList
    configList,     \* the setting git-autoconfig.configList
    local,          \* the local git config of the repository: user.email and user.name
    ops             \* the calls of addRootToIgnoreList / removeRootFromIgnoreList, in order

statusVars == <<status, recs, i, nameStart, ppc, current, result>>
findVars == <<platform, envSet, hint, fpc, cand, gitPath, first, probes, found, settled>>
runVars == <<procEnv, repoEnv, call, callState, callValue, childEnv, child,
             exitP, outP, errP, outBuf, errBuf, listeners, output, method, spawned>>
pollVars == <<activation, deactivated, timeoutId, timers, checks, ignoreRootList,
              configList, local>>
opVars == <<ops>>
vars == <<statusVars, findVars, runVars, pollVars, opVars>>

(***************************************************************************)
(* Helpers                                                                 *)
(***************************************************************************)
SeqsUpTo(S, n) == UNION {[1..k -> S] : k \in 0..n}

Min(a, b) == IF a <= b THEN a ELSE b
Max(a, b) == IF a >= b THEN a ELSE b

(***************************************************************************)
(* Status parser: Repository.getStatus                                     *)
(***************************************************************************)
\* the character U+0000
NUL == "NUL"

\* String.prototype.charAt: the empty string outside the text
CharAt(s, k) == IF k >= 0 /\ k < Len(s) THEN s[k + 1] ELSE ""

\* String.prototype.substring(start, end): both clamped to the text, swapped when start > end
Substring(s, a, b) ==
    LET lo == Min(Max(Min(a, b), 0), Len(s))
        hi == Min(Max(Max(a, b), 0), Len(s))
    IN  SubSeq(s, lo + 1, hi)

\* an absent optional field (IFileStatus.rename?) is <<>>, a present one <<value>>
Absent == <<>>
Present(v) == <<v>>

NoEntry == [x |-> "", y |-> "", path |-> <<>>, rename |-> Absent]

\* git.ts 475: current.path[current.path.length - 1] === '/'
IsDirectoryMarkerFirstChar(path) == Len(path) > 0 /\ path[1] = "/"
IsDirectoryMarker(path) == Len(path) > 0 /\ path[Len(path)] = "/"

\* git.ts 468: current.x === 'R'
HasRenameFieldEitherStatus(cur) == cur.x = "R" \/ cur.y = "R"
HasRenameField(cur) == cur.x = "R"

\* ---- inputs
XCodes == {"M", "R"}
YCodes == {" ", "R"}
Paths == {<<>>, <<"a">>, <<"a", "/">>, <<"/", "a">>}
RenameSources == {<<>>, <<"b">>}

\* one record of `git status -z`: a rename-source field goes with index status R only
Records ==
    {r \in [x : XCodes, y : YCodes, path : Paths,
            rename : {Absent} \cup {Present(n) : n \in RenameSources}] :
        (r.x = "R") <=> (r.rename # Absent)}

RecLists == SeqsUpTo(Records, MaxRecs)

\* the wire format: x, y, one separator, [rename-source NUL] path NUL
SerialiseRecord(r) ==
    <<r.x, r.y, " ">>
        \o (IF r.x = "R" THEN r.rename[1] \o <<NUL>> ELSE <<>>)
        \o r.path \o <<NUL>>

RECURSIVE Serialise(_)
Serialise(rs) ==
    IF rs = <<>> THEN <<>> ELSE SerialiseRecord(Head(rs)) \o Serialise(Tail(rs))

RawAlphabet == {"R", "a", "/", NUL}
RawTexts == SeqsUpTo(RawAlphabet, MaxLen)

\* getStatus after `await this.exec(['status', '-z', '-u'])`: git.ts 447-450
InitStatus ==
    /\ recs \in RecLists
    /\ status \in {Serialise(recs)} \cup (IF recs = <<>> THEN RawTexts ELSE {})
    /\ i = 0
    /\ nameStart = 0
    /\ ppc = "loop"
    /\ current = NoEntry
    /\ result = <<>>

\* the parser at rest, for the specifications that do not run it
IdleStatus ==
    /\ recs = <<>> /\ status = <<>> /\ i = 0 /\ nameStart = 0
    /\ ppc = "loop" /\ current = NoEntry /\ result = <<>>

\* git.ts 459-472: the loop test, the 3-character prefix, and the call of readName
ReadPrefix ==
    /\ ppc = "loop"
    /\ i < Len(status)
    /\ LET cur == [x |-> CharAt(status, i), y |-> CharAt(status, i + 1),
                   path |-> <<>>, rename |-> Absent]
       IN  /\ current' = cur
           /\ ppc' = IF HasRenameField(cur) THEN "rename" ELSE "path"
    /\ i' = i + 3
    /\ nameStart' = i + 3
    /\ UNCHANGED <<status, recs, result>>
    /\ UNCHANGED <<findVars, runVars, pollVars, opVars>>

\* git.ts 455: one turn of readName's while loop
ReadNameStep ==
    /\ ppc \in {"rename", "path"}
    /\ CharAt(status, i) # NUL
    /\ i < Len(status) + Overrun
    /\ i' = i + 1
    /\ UNCHANGED <<status, recs, nameStart, ppc, current, result>>
    /\ UNCHANGED <<findVars, runVars, pollVars, opVars>>

\* git.ts 456, 469: readName returns the rename source; readName is called again
ReadRenameEnd ==
    /\ ppc = "rename"
    /\ CharAt(status, i) = NUL
    /\ current' = [current EXCEPT !.rename = Present(Substring(status, nameStart, i))]
    /\ i' = i + 1
    /\ nameStart' = i + 1
    /\ ppc' = "path"
    /\ UNCHANGED <<status, recs, result>>
    /\ UNCHANGED <<findVars, runVars, pollVars, opVars>>

\* git.ts 456, 472-479: readName returns the path; the entry is kept or skipped
ReadPathEnd ==
    /\ ppc = "path"
    /\ CharAt(status, i) = NUL
    /\ LET cur == [current EXCEPT !.path = Substring(status, nameStart, i)]
       IN  /\ current' = cur
           /\ result' = IF IsDirectoryMarker(cur.path) THEN result ELSE Append(result, cur)
    /\ i' = i + 1
    /\ ppc' = "loop"
    /\ UNCHANGED <<status, recs, nameStart>>
    /\ UNCHANGED <<findVars, runVars, pollVars, opVars>>

\* git.ts 459, 482: the loop test fails and the entries are returned
ParseReturn ==
    /\ ppc = "loop"
    /\ i >= Len(status)
    /\ ppc' = "done"
    /\ UNCHANGED <<status, recs, i, nameStart, current, result>>
    /\ UNCHANGED <<findVars, runVars, pollVars, opVars>>

NextStatus ==
    \/ ReadPrefix
    \/ ReadNameStep
    \/ ReadRenameEnd
    \/ ReadPathEnd
    \/ ParseReturn

(***************************************************************************)
(* Binary locator: findGit and its strategies                              *)
(***************************************************************************)
Platforms == {"darwin", "win32", "linux"}

\* the bases findGitWin32 reads from process.env, and the portable directory's
WinEnvNames == {"ProgramW6432", "ProgramFiles(x86)", "ProgramFiles", "LOCALAPPDATA"}

\* hint: string | undefined; the empty string is falsy like undefined
Hints == {"undefined", "", "/hint/git"}
HintGiven(h) == h \notin {"undefined", ""}

\* git.ts 106: the path of the macOS stub
StubPath == "/usr/bin/git"
WhichPaths == {StubPath, "/usr/local/bin/git"}

\* a promise: pending, fulfilled with an IGit (its path), or rejected with a
\* reason; a reason names its kind and the candidate that produced it
Pending == [state |-> "pending", path |-> "", reason |-> [kind |-> "", of |-> ""]]
Fulfilled(p) == [state |-> "fulfilled", path |-> p, reason |-> [kind |-> "", of |-> ""]]
Rejected(k, c) == [state |-> "rejected", path |-> "", reason |-> [kind |-> k, of |-> c]]

\* the locator's position and effects after one step
Loc(pc, c, pr, f) == [fpc |-> pc, cand |-> c, probes |-> pr, found |-> f]

\* git.ts 76-79: findSpecificGit(path) spawns `path --version`
Probe(c, pr) == Loc("probe", c, Append(pr, c), Pending)

\* git.ts 147-153: the order of findGitWin32's chain
WinNextAliasFirst(c) ==
    CASE c = "ProgramW6432" -> "ProgramFiles"
      [] c = "ProgramFiles" -> "ProgramFiles(x86)"
      [] c = "ProgramFiles(x86)" -> "git"
      [] c = "git" -> "PortableGit"
WinNext(c) ==
    CASE c = "ProgramW6432" -> "ProgramFiles(x86)"
      [] c = "ProgramFiles(x86)" -> "ProgramFiles"
      [] c = "ProgramFiles" -> "git"
      [] c = "git" -> "PortableGit"

\* git.ts 125-153: start candidate c of findGitWin32's chain; a candidate that
\* fails before it spawns anything hands over to the next one at once
RECURSIVE StartWin(_, _)
StartWin(c, pr) ==
    CASE c \in {"ProgramW6432", "ProgramFiles(x86)", "ProgramFiles"} ->
            \* findSystemGitWin32: git.ts 125-131
            IF c \in envSet THEN Probe(c, pr) ELSE StartWin(WinNext(c), pr)
      [] c = "git" -> Probe(c, pr)
      [] c = "PortableGit" ->
            \* findGitHubGitWin32: git.ts 133-136; path.join throws on undefined
            IF "LOCALAPPDATA" \in envSet
            THEN Loc("readdir", c, Append(pr, "readdir GitHub"), Pending)
            ELSE Loc("done", c, pr, Rejected("TypeError", c))

\* git.ts 159-163: the platform switch
StartPlatform(pr) ==
    CASE platform = "darwin" -> Loc("which", "darwin", Append(pr, "which git"), Pending)
      [] platform = "win32" -> StartWin("ProgramW6432", pr)
      [] OTHER -> Probe("git", pr)

\* git.ts 158: the rejection handler of `first`
FailWithHint(pr, reason) == Loc("done", "hint", pr, [Pending EXCEPT !.state = "rejected", !.reason = reason])
AfterFirstRejected(pr, reason) == StartPlatform(pr)

\* what follows the rejection of candidate c's probe
AfterRejected(c, pr, reason) ==
    CASE c = "hint" -> AfterFirstRejected(pr, reason)
      [] platform = "win32" /\ c # "PortableGit" -> StartWin(WinNext(c), pr)
      [] OTHER -> Loc("done", c, pr, [Pending EXCEPT !.state = "rejected", !.reason = reason])

\* the outcome of a completed probe or query: what completed and whether it succeeded
Outcome(what, ok) == [of |-> what, ok |-> ok]

\* the path findSpecificGit was given for candidate c
CandidatePathName(c) == c
CandidatePath(c) == IF c = "hint" THEN hint ELSE c

Move(l) ==
    /\ fpc' = l.fpc
    /\ cand' = l.cand
    /\ probes' = l.probes
    /\ found' = l.found

InitFind ==
    /\ platform \in Platforms
    /\ envSet \in (IF platform = "win32" THEN SUBSET WinEnvNames ELSE {{}})
    /\ hint \in Hints
    /\ fpc = "idle"
    /\ cand = ""
    /\ gitPath = ""
    /\ first = Pending
    /\ probes = <<>>
    /\ found = Pending
    /\ settled = <<>>

\* the locator at rest, for the specifications that do not run it
IdleFind ==
    /\ platform = "linux" /\ envSet = {} /\ hint = "undefined"
    /\ fpc = "idle" /\ cand = "" /\ gitPath = ""
    /\ first = Pending /\ probes = <<>> /\ found = Pending /\ settled = <<>>

\* git.ts 155-165: findGit(hint) up to its first suspension
FindGit ==
    /\ fpc = "idle"
    /\ IF HintGiven(hint)
       THEN /\ Move(Probe("hint", probes))
            /\ first' = Pending
       ELSE /\ Move(AfterFirstRejected(probes, [kind |-> "null", of |-> ""]))
            /\ first' = Rejected("null", "")
    /\ UNCHANGED <<platform, envSet, hint, gitPath, settled>>
    /\ UNCHANGED <<statusVars, runVars, pollVars, opVars>>

\* git.ts 81: the probe's child emits 'error'
SpecificGitError ==
    /\ fpc = "probe"
    /\ Move(AfterRejected(cand, probes, [kind |-> "SpawnError", of |-> cand]))
    /\ first' = IF cand = "hint" THEN Rejected("SpawnError", cand) ELSE first
    /\ settled' = Append(settled, Outcome(cand, FALSE))
    /\ UNCHANGED <<platform, envSet, hint, gitPath>>
    /\ UNCHANGED <<statusVars, runVars, pollVars, opVars>>

\* git.ts 82: the probe's child emits 'exit'
SpecificGitExit(code) ==
    /\ fpc = "probe"
    /\ IF Truthy(code)
       THEN /\ Move(AfterRejected(cand, probes, [kind |-> "Error: Not found", of |-> cand]))
            /\ first' = IF cand = "hint" THEN Rejected("Error: Not found", cand) ELSE first
       ELSE /\ Move(Loc("done", cand, probes, Fulfilled(CandidatePath(cand))))
            /\ first' = IF cand = "hint" THEN Fulfilled(hint) ELSE first
    /\ settled' = Append(settled, Outcome(cand, ~Truthy(code)))
    /\ UNCHANGED <<platform, envSet, hint, gitPath>>
    /\ UNCHANGED <<statusVars, runVars, pollVars, opVars>>

\* git.ts 88-108: the callback of `which git`
WhichDone(err, p) ==
    /\ fpc = "which"
    /\ IF err
       THEN /\ Move(Loc("done", cand, probes, Rejected("'git not found'", "which git")))
            /\ gitPath' = gitPath
       ELSE /\ gitPath' = p
            /\ IF p # StubPath
               THEN Move(Loc("version", cand, Append(probes, "git --version"), Pending))
               ELSE Move(Loc("xcode", cand, Append(probes, "xcode-select -p"), Pending))
    /\ settled' = Append(settled, Outcome("which git", ~err))
    /\ UNCHANGED <<platform, envSet, hint, first>>
    /\ UNCHANGED <<statusVars, runVars, pollVars, opVars>>

\* git.ts 111-120: the callback of `xcode-select -p`; errCode 0 is no error
XcodeSelectDone(errCode) ==
    /\ fpc = "xcode"
    /\ IF errCode = 2
       THEN Move(Loc("done", cand, probes, Rejected("'git not found'", "xcode-select -p")))
       ELSE Move(Loc("version", cand, Append(probes, "git --version"), Pending))
    /\ settled' = Append(settled, Outcome("xcode-select -p", errCode = 0))
    /\ UNCHANGED <<platform, envSet, hint, gitPath, first>>
    /\ UNCHANGED <<statusVars, runVars, pollVars, opVars>>

\* git.ts 97-103: the callback of `git --version`
GetVersionDone(err) ==
    /\ fpc = "version"
    /\ IF err
       THEN Move(Loc("done", cand, probes, Rejected("'git not found'", "git --version")))
       ELSE Move(Loc("done", cand, probes, Fulfilled(gitPath)))
    /\ settled' = Append(settled, Outcome("git --version", ~err))
    /\ UNCHANGED <<platform, envSet, hint, gitPath, first>>
    /\ UNCHANGED <<statusVars, runVars, pollVars, opVars>>

\* git.ts 136-144: readdir(github) settles; portable says whether a child
\* of the directory matches /^PortableGit/
ReaddirDone(err, portable) ==
    /\ fpc = "readdir"
    /\ IF err
       THEN Move(Loc("done", cand, probes, Rejected("ReaddirError", cand)))
       ELSE IF ~portable
            THEN Move(Loc("done", cand, probes, Rejected("'Not found'", cand)))
            ELSE Move(Probe(cand, probes))
    /\ settled' = Append(settled, Outcome("readdir GitHub", ~err))
    /\ UNCHANGED <<platform, envSet, hint, gitPath, first>>
    /\ UNCHANGED <<statusVars, runVars, pollVars, opVars>>

NextFind ==
    \/ FindGit
    \/ SpecificGitError
    \/ \E code \in ExitCodes : SpecificGitExit(code)
    \/ \E err \in BOOLEAN, p \in WhichPaths : WhichDone(err, p)
    \/ \E errCode \in {0, 1, 2} : XcodeSelectDone(errCode)
    \/ \E err \in BOOLEAN : GetVersionDone(err)
    \/ \E err \in BOOLEAN, portable \in BOOLEAN : ReaddirDone(err, portable)

(***************************************************************************)
(* Process runner: Repository.exec, Git.exec, Git._exec, Git.spawn and     *)
(* exec(child)                                                             *)
(***************************************************************************)
Inv == 1..MaxInv

\* ---- environment maps: a function from the names that are set to their values
EnvNames == {"VSCODE_GIT_COMMAND", "LANG", "GIT_ASKPASS"}
EnvMaps(v) == UNION {[D -> {v}] : D \in SUBSET EnvNames}
EmptyEnv == [n \in {} |-> ""]

\* Object.assign({}, a, b): b's entries over a's
Overlay(a, b) ==
    [n \in DOMAIN a \cup DOMAIN b |-> IF n \in DOMAIN b THEN b[n] ELSE a[n]]

\* git.ts 407-408: Repository.exec lays the handle's env over options.env
RepositoryEnv(optEnv) == Overlay(Overlay(EmptyEnv, optEnv), repoEnv)

\* git.ts 374-377: the environment Git.spawn gives the child
FixedEnv(args) == ("VSCODE_GIT_COMMAND" :> args[1]) @@ ("LANG" :> "en_US.UTF-8")
SpawnEnvCallerLast(pEnv, optEnv, args) == Overlay(Overlay(pEnv, FixedEnv(args)), optEnv)
SpawnEnv(pEnv, optEnv, args) == Overlay(Overlay(pEnv, optEnv), FixedEnv(args))

\* ---- texts: a text is a sequence of tokens, a token a literal piece of output
\* buffers.join('')
RECURSIVE JoinChunks(_)
JoinChunks(bs) == IF bs = <<>> THEN <<>> ELSE Head(bs) \o JoinChunks(Tail(bs))

\* RegExp.test for a pattern that is an alternation of literal phrases
Test(phrases, text) == \E k \in 1..Len(text) : text[k] \in phrases

\* git.ts 328-342: the classification of stderr
ClassifyRepositoryFirst(stderr) ==
    IF Test({"Not a git repository"}, stderr) THEN "NotAGitRepository"
    ELSE IF Test({"Authentication failed"}, stderr) THEN "AuthenticationFailed"
    ELSE IF Test({"bad config file"}, stderr) THEN "BadConfigFile"
    ELSE IF Test({"cannot make pipe for command substitution",
                  "cannot create standard input pipe"}, stderr) THEN "CantCreatePipe"
    ELSE IF Test({"Repository not found"}, stderr) THEN "RepositoryNotFound"
    ELSE IF Test({"unable to access"}, stderr) THEN "CantAccessRemote"
    ELSE "undefined"
Classify(stderr) ==
    IF Test({"Authentication failed"}, stderr) THEN "AuthenticationFailed"
    ELSE IF Test({"Not a git repository"}, stderr) THEN "NotAGitRepository"
    ELSE IF Test({"bad config file"}, stderr) THEN "BadConfigFile"
    ELSE IF Test({"cannot make pipe for command substitution",
                  "cannot create standard input pipe"}, stderr) THEN "CantCreatePipe"
    ELSE IF Test({"Repository not found"}, stderr) THEN "RepositoryNotFound"
    ELSE IF Test({"unable to access"}, stderr) THEN "CantAccessRemote"
    ELSE "undefined"

\* ---- values
NoCall == [args |-> <<>>, log |-> TRUE, env |-> EmptyEnv]
NoValue == [kind |-> "none"]
\* the error object a child emits with 'error'
RawError == [kind |-> "Error"]
\* git.ts 206: IExecutionResult
ExecutionResult(code, out, err) ==
    [kind |-> "ExecutionResult", exitCode |-> code, stdout |-> out, stderr |-> err]
\* git.ts 348-355: the GitError of a failed run
GitError(res, errorCode, args) ==
    [kind |-> "GitError", message |-> "Failed to execute git",
     stdout |-> res.stdout, stderr |-> res.stderr, exitCode |-> res.exitCode,
     gitErrorCode |-> errorCode, gitCommand |-> args[1]]

\* ---- Repository.configGet and Repository.config
\* JavaScript's undefined, for an argument that was not passed
Undefined == "undefined"
\* JavaScript truthiness of a string argument: `if (scope)`, `if (value)`
Given(v) == v # Undefined /\ v # ""
\* git.ts 417, 432: `--${scope}`
ScopeFlag(scope) == "--" \o scope
\* git.ts 414-422: the argument list configGet builds
ConfigGetArgs(scope, key) ==
    <<"config">> \o (IF Given(scope) THEN <<ScopeFlag(scope)>> ELSE <<>>) \o <<"--get", key>>
\* git.ts 429-439: the argument list config builds
ConfigArgs(scope, key, value) ==
    <<"config">> \o (IF Given(scope) THEN <<ScopeFlag(scope)>> ELSE <<>>) \o <<key>>
        \o (IF Given(value) THEN <<value>> ELSE <<>>)
NoMethod == [name |-> "none", scope |-> Undefined, key |-> Undefined, value |-> Undefined]

\* git.ts 319, 383: the one cp.spawn of a call
SpawnTwice(sp, n) == Append(Append(sp, n), n)
Spawn(sp, n) == Append(sp, n)

NoChild == [exit |-> FALSE, error |-> FALSE, outClosed |-> FALSE, errClosed |-> FALSE]
PendingExit == [state |-> "pending", code |-> 0]
PendingText == [state |-> "pending", text |-> <<>>]
ResolvedText(t) == [state |-> "resolved", text |-> t]

\* git.ts 189-200: the listeners exec(child) registers
AllListeners == {"child.error", "child.exit", "stdout.data", "stdout.close",
                 "stderr.data", "stderr.close"}

\* git.ts 187: Promise.all over the three promises
JoinOnExitAlone(e, o, r) ==
    IF e.state = "rejected" THEN "rejected"
    ELSE IF e.state = "resolved" THEN "resolved"
    ELSE "pending"
JoinState(e, o, r) ==
    IF e.state = "rejected" THEN "rejected"
    ELSE IF e.state = "resolved" /\ o.state = "resolved" /\ r.state = "resolved"
         THEN "resolved"
    ELSE "pending"

\* git.ts 380, 345: what Git.log fires on the sink
CommandLine(args) == [line |-> "command", text |-> <<"git">> \o args]
StderrLine(text) == [line |-> "stderr", text |-> text]

\* git.ts 187-207, 325-358: what follows an event of invocation n that left the
\* three promises as e, o, r and the listeners as ls: the join, dispose, and
\* _exec's continuation, all of which run before the next event is delivered
Continue(n, e, o, r, ls) ==
    LET js == IF callState[n] = "pending" THEN JoinState(e, o, r) ELSE "pending"
        res == ExecutionResult(e.code, o.text, r.text)
    IN  /\ exitP' = [exitP EXCEPT ![n] = e]
        /\ outP' = [outP EXCEPT ![n] = o]
        /\ errP' = [errP EXCEPT ![n] = r]
        /\ CASE js = "pending" ->
                    /\ listeners' = [listeners EXCEPT ![n] = ls]
                    /\ UNCHANGED <<callState, callValue, output>>
             [] js = "rejected" ->
                    \* the await throws: dispose is not reached, _exec rejects
                    /\ listeners' = [listeners EXCEPT ![n] = ls]
                    /\ callState' = [callState EXCEPT ![n] = "rejected"]
                    /\ callValue' = [callValue EXCEPT ![n] = RawError]
                    /\ UNCHANGED output
             [] js = "resolved" ->
                    /\ listeners' = [listeners EXCEPT ![n] = {}]
                    /\ IF Truthy(res.exitCode)
                       THEN /\ callState' = [callState EXCEPT ![n] = "rejected"]
                            /\ callValue' = [callValue EXCEPT ![n] =
                                    GitError(res, Classify(res.stderr), call[n].args)]
                            /\ output' = [output EXCEPT ![n] =
                                    IF call[n].log THEN Append(@, StderrLine(res.stderr)) ELSE @]
                       ELSE /\ callState' = [callState EXCEPT ![n] = "fulfilled"]
                            /\ callValue' = [callValue EXCEPT ![n] = res]
                            /\ UNCHANGED output

InitRun(pEnvs, rEnvs) ==
    /\ procEnv \in pEnvs
    /\ repoEnv \in rEnvs
    /\ call = [n \in Inv |-> NoCall]
    /\ callState = [n \in Inv |-> "idle"]
    /\ callValue = [n \in Inv |-> NoValue]
    /\ childEnv = [n \in Inv |-> EmptyEnv]
    /\ child = [n \in Inv |-> NoChild]
    /\ exitP = [n \in Inv |-> PendingExit]
    /\ outP = [n \in Inv |-> PendingText]
    /\ errP = [n \in Inv |-> PendingText]
    /\ outBuf = [n \in Inv |-> <<>>]
    /\ errBuf = [n \in Inv |-> <<>>]
    /\ listeners = [n \in Inv |-> {}]
    /\ output = [n \in Inv |-> <<>>]
    /\ method = [n \in Inv |-> NoMethod]
    /\ spawned = <<>>

\* the runner at rest, for the specifications that do not run it
IdleRun == InitRun({EmptyEnv}, {EmptyEnv})

\* git.ts 406-411, 308-311, 318-325, 361-384, 174-202: Repository.exec(args,
\* options) up to the await of the join: the environment is merged, the command
\* line logged, the child spawned and the listeners registered
Exec(n, args, log, env) ==
    /\ callState[n] = "idle"
    \* the invocations are numbered in the order of their calls
    /\ IF n = 1 THEN TRUE ELSE callState[n - 1] # "idle"
    /\ call' = [call EXCEPT ![n] = [args |-> args, log |-> log, env |-> env]]
    /\ childEnv' = [childEnv EXCEPT ![n] = SpawnEnv(procEnv, RepositoryEnv(env), args)]
    /\ output' = [output EXCEPT ![n] = IF log THEN <<CommandLine(args)>> ELSE <<>>]
    /\ spawned' = Spawn(spawned, n)
    /\ callState' = [callState EXCEPT ![n] = "pending"]
    /\ listeners' = [listeners EXCEPT ![n] = AllListeners]
    /\ UNCHANGED <<procEnv, repoEnv, callValue, child, exitP, outP, errP, outBuf, errBuf>>
    /\ UNCHANGED <<statusVars, findVars, pollVars, opVars>>

\* a call of Repository.exec itself
Run(n, args, log, env) ==
    /\ Exec(n, args, log, env)
    /\ method' = [method EXCEPT ![n] = [NoMethod EXCEPT !.name = "exec"]]

\* git.ts 413-426: Repository.configGet(scope, key, {}) up to the await
ConfigGet(n, scope, key) ==
    /\ Exec(n, ConfigGetArgs(scope, key), TRUE, EmptyEnv)
    /\ method' = [method EXCEPT ![n] =
            [name |-> "configGet", scope |-> scope, key |-> key, value |-> Undefined]]

\* git.ts 428-443: Repository.config(scope, key, value, {}) up to the await
Config(n, scope, key, value) ==
    /\ Exec(n, ConfigArgs(scope, key, value), TRUE, EmptyEnv)
    /\ method' = [method EXCEPT ![n] =
            [name |-> "config", scope |-> scope, key |-> key, value |-> value]]

\* git.ts 424-425, 441-442: what the promise of configGet or config settles
\* with, once the runner's has: the stdout of the result, or the runner's failure
MethodValue(n) ==
    IF callState[n] = "fulfilled" THEN callValue[n].stdout ELSE callValue[n]

\* git.ts 313-316, 361-384: Git.stream(cwd, args, options): the environment is
\* merged, the command line logged, the child spawned and handed to the caller
\* at once; nothing listens on it
Stream(n, args, log, env) ==
    /\ callState[n] = "idle"
    /\ IF n = 1 THEN TRUE ELSE callState[n - 1] # "idle"
    /\ call' = [call EXCEPT ![n] = [args |-> args, log |-> log, env |-> env]]
    /\ childEnv' = [childEnv EXCEPT ![n] = SpawnEnv(procEnv, env, args)]
    /\ output' = [output EXCEPT ![n] = IF log THEN <<CommandLine(args)>> ELSE <<>>]
    /\ spawned' = Spawn(spawned, n)
    /\ callState' = [callState EXCEPT ![n] = "streaming"]
    /\ callValue' = [callValue EXCEPT ![n] = [kind |-> "ChildProcess"]]
    /\ method' = [method EXCEPT ![n] = [NoMethod EXCEPT !.name = "stream"]]
    /\ UNCHANGED <<procEnv, repoEnv, child, exitP, outP, errP, outBuf, errBuf, listeners>>
    /\ UNCHANGED <<statusVars, findVars, pollVars, opVars>>

\* the child emits 'error' (it could not be spawned): git.ts 189
ChildError(n) ==
    /\ callState[n] # "idle"
    /\ ~child[n].error /\ ~child[n].exit
    /\ child' = [child EXCEPT ![n].error = TRUE]
    /\ Continue(n,
                IF "child.error" \in listeners[n] /\ exitP[n].state = "pending"
                    THEN [exitP[n] EXCEPT !.state = "rejected"] ELSE exitP[n],
                outP[n], errP[n], listeners[n] \ {"child.error"})
    /\ UNCHANGED <<method, spawned, procEnv, repoEnv, call, childEnv, outBuf, errBuf>>
    /\ UNCHANGED <<statusVars, findVars, pollVars, opVars>>

\* the child emits 'exit' with its exit code, or with null when a signal ended
\* it; an 'exit' may follow an 'error': git.ts 190
ChildExit(n, code) ==
    /\ callState[n] # "idle"
    /\ ~child[n].exit
    /\ child' = [child EXCEPT ![n].exit = TRUE]
    /\ Continue(n,
                IF "child.exit" \in listeners[n] /\ exitP[n].state = "pending"
                    THEN [state |-> "resolved", code |-> code] ELSE exitP[n],
                outP[n], errP[n], listeners[n] \ {"child.exit"})
    /\ UNCHANGED <<method, spawned, procEnv, repoEnv, call, childEnv, outBuf, errBuf>>
    /\ UNCHANGED <<statusVars, findVars, pollVars, opVars>>

\* the 'data' events delivered so far to the invocations 1..n
RECURSIVE Delivered(_)
Delivered(n) ==
    IF n = 0 THEN 0 ELSE Len(outBuf[n]) + Len(errBuf[n]) + Delivered(n - 1)

\* the model follows at most MaxChunks 'data' events
MoreData == Delivered(MaxInv) < MaxChunks

\* child.stdout emits 'data': git.ts 194
StdoutData(n, chunk) ==
    /\ callState[n] # "idle"
    /\ ~child[n].outClosed
    /\ "stdout.data" \in listeners[n]
    /\ MoreData
    /\ outBuf' = [outBuf EXCEPT ![n] = Append(@, chunk)]
    /\ UNCHANGED <<method, spawned, procEnv, repoEnv, call, callState, callValue, childEnv, child,
                   exitP, outP, errP, errBuf, listeners, output>>
    /\ UNCHANGED <<statusVars, findVars, pollVars, opVars>>

\* child.stderr emits 'data': git.ts 199
StderrData(n, chunk) ==
    /\ callState[n] # "idle"
    /\ ~child[n].errClosed
    /\ "stderr.data" \in listeners[n]
    /\ MoreData
    /\ errBuf' = [errBuf EXCEPT ![n] = Append(@, chunk)]
    /\ UNCHANGED <<method, spawned, procEnv, repoEnv, call, callState, callValue, childEnv, child,
                   exitP, outP, errP, outBuf, listeners, output>>
    /\ UNCHANGED <<statusVars, findVars, pollVars, opVars>>

\* child.stdout emits 'close': git.ts 195
StdoutClose(n) ==
    /\ callState[n] # "idle"
    /\ ~child[n].outClosed
    /\ child' = [child EXCEPT ![n].outClosed = TRUE]
    /\ Continue(n, exitP[n],
                IF "stdout.close" \in listeners[n]
                    THEN ResolvedText(JoinChunks(outBuf[n])) ELSE outP[n],
                errP[n], listeners[n] \ {"stdout.close"})
    /\ UNCHANGED <<method, spawned, procEnv, repoEnv, call, childEnv, outBuf, errBuf>>
    /\ UNCHANGED <<statusVars, findVars, pollVars, opVars>>

\* child.stderr emits 'close': git.ts 200
StderrClose(n) ==
    /\ callState[n] # "idle"
    /\ ~child[n].errClosed
    /\ child' = [child EXCEPT ![n].errClosed = TRUE]
    /\ Continue(n, exitP[n], outP[n],
                IF "stderr.close" \in listeners[n]
                    THEN ResolvedText(JoinChunks(errBuf[n])) ELSE errP[n],
                listeners[n] \ {"stderr.close"})
    /\ UNCHANGED <<method, spawned, procEnv, repoEnv, call, childEnv, outBuf, errBuf>>
    /\ UNCHANGED <<statusVars, findVars, pollVars, opVars>>

\* ---- inputs
ArgLists == {<<"config", "--local", "--get", "user.email">>, <<"status", "-z", "-u">>}
OutChunks == {<<"out">>}
ErrChunks == {<<"Authentication failed">>}

\* the phrases _exec looks for, by descending priority of their kind
PhrasesDescending ==
    <<"unable to access", "Repository not found", "cannot create standard input pipe",
      "cannot make pipe for command substitution", "bad config file",
      "Not a git repository", "Authentication failed">>
Phrases == {PhrasesDescending[k] : k \in 1..Len(PhrasesDescending)}
TextOf(S) == SelectSeq(PhrasesDescending, LAMBDA p : p \in S)
\* one text for every set of phrases, and one without any phrase
PhraseTexts == {TextOf(S) : S \in SUBSET Phrases} \cup {<<"fatal: unknown">>}

\* the steps of the invocations ns, with the calls' arguments and the children's
\* output drawn from the given sets
NextRun(ns, argss, logs, envs, outs, errs) ==
    \E n \in ns :
        \/ \E args \in argss, log \in logs, env \in envs : Run(n, args, log, env)
        \/ ChildError(n)
        \/ \E code \in ExitCodes : ChildExit(n, code)
        \/ \E chunk \in outs : StdoutData(n, chunk)
        \/ \E chunk \in errs : StderrData(n, chunk)
        \/ StdoutClose(n)
        \/ StderrClose(n)

\* process.env of the extension host
HostEnv == ("LANG" :> "inherited") @@ ("GIT_ASKPASS" :> "inherited")

\* every invocation, one call each
Next ==
    \/ NextRun(Inv, {<<"config", "--local", "--get", "user.email">>}, {TRUE},
               {EmptyEnv}, OutChunks, ErrChunks)
    \/ \E n \in Inv : Stream(n, <<"log">>, TRUE, EmptyEnv)

\* one invocation, every call
NextEnv == NextRun({1}, ArgLists, BOOLEAN, EnvMaps("caller"), OutChunks, ErrChunks)

\* one invocation, every combination of phrases in stderr
NextClassify == NextRun({1}, {<<"status", "-z", "-u">>}, {TRUE}, {EmptyEnv},
                        OutChunks, PhraseTexts)

\* the arguments of configGet and config
Scopes == {Undefined, "", "local", "global"}
Keys == {"user.email", "user.name"}
Values == {Undefined, "", "Tom"}

\* one invocation, through configGet or config
NextConfig ==
    \/ \E scope \in Scopes, key \in Keys : ConfigGet(1, scope, key)
    \/ \E scope \in Scopes, key \in Keys, value \in Values : Config(1, scope, key, value)
    \/ ChildError(1)
    \/ \E code \in ExitCodes : ChildExit(1, code)
    \/ \E chunk \in OutChunks : StdoutData(1, chunk)
    \/ \E chunk \in ErrChunks : StderrData(1, chunk)
    \/ StdoutClose(1)
    \/ StderrClose(1)

(***************************************************************************)
(* The extension: activate, the polling loop checkForLocalConfig, the      *)
(* set-config flow and deactivate (extension.ts, config/config.ts)         *)
(***************************************************************************)
Polls == 1..MaxPolls
Ops == 1..MaxOps

\* JavaScript's null: findRepositoryRoot found no root, getGitConfig no config
Null == "null"
\* the root of the repository the workspace is in
Roots == {"/repo"}
\* a key `git config --get` finds no value for
Unset == "unset"

\* config.ts 3-6: GitConfig
GitConfig(email, name) == ("user.email" :> email) @@ ("user.name" :> name)
\* config.ts 8-11
CUSTOM_GIT_CONFIG == GitConfig("", "custom")
\* config.ts 13-16
IGNORE_CURRENT_ROOT_GIT_CONFIG == GitConfig("", "Ignore current root")
\* config.ts 51-53: `${c["user.email"]} ${c["user.name"]}`; an undefined field
\* is rendered as the text undefined
generateGitConfigKey(c) == c["user.email"] \o " " \o c["user.name"]

\* extension.ts 127: configList.find((c) => generateGitConfigKey(c) === newConfigKey)
HasKeyNever(list, key) == FALSE
HasKey(list, key) == \E k \in 1..Len(list) : generateGitConfigKey(list[k]) = key

\* extension.ts 155-159: the keys offered by the quick pick
PickKeys(list) ==
    {generateGitConfigKey(list[k]) : k \in 1..Len(list)}
        \cup {generateGitConfigKey(CUSTOM_GIT_CONFIG),
              generateGitConfigKey(IGNORE_CURRENT_ROOT_GIT_CONFIG)}

\* extension.ts 155-158, 165: map.get(pick); a later entry replaces an earlier
\* one with the same key
MapGet(list, pick) ==
    LET all == list \o <<CUSTOM_GIT_CONFIG, IGNORE_CURRENT_ROOT_GIT_CONFIG>>
        last == CHOOSE k \in 1..Len(all) :
                    /\ generateGitConfigKey(all[k]) = pick
                    /\ \A j \in (k + 1)..Len(all) : generateGitConfigKey(all[j]) # pick
    IN  all[last]

\* config.ts 47-49: isRootInIgnoreList
isRootInIgnoreListNever(root) == FALSE
isRootInIgnoreList(root) == root \in ignoreRootList

\* extension.ts 46: `if (!gitConfig)`; getGitConfig returns null when a read failed
StartsFlowNever(gitConfig) == FALSE
StartsFlow(gitConfig) == gitConfig = Null

\* extension.ts 58: setTimeout adds a timer to the armed ones
RearmNever(ts, id) == ts
Rearm(ts, id) == ts \cup {id}

\* a poll check that has not started
NoCheck ==
    [pc |-> "none", root |-> Null, emailRead |-> "none", nameRead |-> "none",
     flow |-> FALSE, prompts |-> 0, wrote |-> {}, list |-> <<>>,
     userEmail |-> Undefined, newConfig |-> GitConfig(Undefined, Undefined),
     roots |-> {}, shown |-> "none", outcome |-> "none"]

\* config.ts 38: the list read from the settings with root added, as a set
AddRoot(list, root) == list \cup {root}

\* config.ts 42-44: the list read from the settings without root
RemoveRoot(list, root) == list \ {root}

\* a call of addRootToIgnoreList / removeRootFromIgnoreList that was not made
NoOp == [kind |-> "none", root |-> Null, pc |-> "none", roots |-> {}]

\* the positions at which a poll check is in flight
InFlight(c) == c.pc \notin {"none", "done"}

InitPoll ==
    /\ activation = "inactive"
    /\ deactivated = FALSE
    /\ timeoutId = 0
    /\ timers = {}
    /\ checks = [k \in Polls |-> NoCheck]
    /\ ignoreRootList \in SUBSET Roots
    /\ configList \in {<<>>, <<GitConfig("Tom", "Tom")>>}
    /\ local \in {[k \in Keys |-> Unset],
                  [k \in Keys |-> IF k = "user.email" THEN "Tom" ELSE Unset],
                  [k \in Keys |-> "Tom"]}
    /\ ops = [o \in Ops |-> NoOp]

\* the extension at rest, for the specifications that do not run it
IdlePoll ==
    /\ activation = "inactive" /\ deactivated = FALSE
    /\ timeoutId = 0 /\ timers = {}
    /\ checks = [k \in Polls |-> NoCheck]
    /\ ignoreRootList = {} /\ configList = <<>>
    /\ local = [k \in Keys |-> Unset]
    /\ ops = [o \in Ops |-> NoOp]

\* extension.ts 28-29: activate up to the await of findGit(undefined)
Activate ==
    /\ activation = "inactive"
    /\ activation' = "locating"
    /\ UNCHANGED <<deactivated, timeoutId, timers, checks, ignoreRootList, configList, local>>
    /\ UNCHANGED <<statusVars, findVars, runVars, opVars>>

\* extension.ts 29-61: findGit settles; when it found git the first check is
\* put on the timer, otherwise activate rejects
Located(ok) ==
    /\ activation = "locating"
    /\ IF ok
       THEN /\ activation' = "active"
            /\ timeoutId' = timeoutId + 1
            /\ timers' = Rearm(timers, timeoutId + 1)
       ELSE /\ activation' = "failed"
            /\ UNCHANGED <<timeoutId, timers>>
    /\ UNCHANGED <<deactivated, checks, ignoreRootList, configList, local>>
    /\ UNCHANGED <<statusVars, findVars, runVars, opVars>>

\* extension.ts 203-206: deactivate clears the timer timeoutId names
Deactivate ==
    /\ activation = "active"
    /\ ~deactivated
    /\ deactivated' = TRUE
    /\ timers' = timers \ {timeoutId}
    /\ UNCHANGED <<activation, timeoutId, checks, ignoreRootList, configList, local>>
    /\ UNCHANGED <<statusVars, findVars, runVars, opVars>>

\* extension.ts 55-59: check k leaves its try block as c with the given
\* outcome; the finally block puts the next check on the timer
Finish(k, c, outcome) ==
    /\ checks' = [checks EXCEPT ![k] =
            \* the locals of the flow go out of scope
            [c EXCEPT !.pc = "done", !.outcome = outcome,
                      !.list = NoCheck.list, !.userEmail = NoCheck.userEmail,
                      !.newConfig = NoCheck.newConfig, !.roots = NoCheck.roots]]
    /\ timeoutId' = timeoutId + 1
    /\ timers' = Rearm(timers, timeoutId + 1)

\* check k goes on as c
Goto(k, c) ==
    /\ checks' = [checks EXCEPT ![k] = c]
    /\ UNCHANGED <<timeoutId, timers>>

\* extension.ts 35-36: timer t fires and checkForLocalConfig runs up to the
\* await of findRepositoryRoot(false)
TimerFires(t) ==
    /\ t \in timers
    /\ t \in Polls
    /\ timers' = timers \ {t}
    /\ checks' = [checks EXCEPT ![t] = [NoCheck EXCEPT !.pc = "root"]]
    /\ UNCHANGED <<activation, deactivated, timeoutId, ignoreRootList, configList, local>>
    /\ UNCHANGED <<statusVars, findVars, runVars, opVars>>

\* extension.ts 36-45, 67-82, 90: findRepositoryRoot settles with a root or null
RootDone(k, r) ==
    /\ checks[k].pc = "root"
    /\ LET c == [checks[k] EXCEPT !.root = r]
       IN  IF isRootInIgnoreList(r) THEN Finish(k, c, "ignored root")
           ELSE IF r # Null THEN Goto(k, [c EXCEPT !.pc = "email"])
           ELSE Finish(k, c, "no repository root")
    /\ UNCHANGED <<activation, deactivated, ignoreRootList, configList, local>>
    /\ UNCHANGED <<statusVars, findVars, runVars, opVars>>

\* extension.ts 117-118: setGitConfig up to the await of findRepositoryRoot()
EnterFlow(c) == [c EXCEPT !.pc = "flowRoot", !.flow = TRUE]

\* extension.ts 90-91, 95-98, 46-48: configGet('local', 'user.email') settles
EmailDone(k, ok) ==
    /\ checks[k].pc = "email"
    /\ ok => local["user.email"] # Unset
    /\ LET c == [checks[k] EXCEPT !.emailRead = IF ok THEN "read" ELSE "failed"]
       IN  IF ok THEN Goto(k, [c EXCEPT !.pc = "name"])
           ELSE IF StartsFlow(Null) THEN Goto(k, EnterFlow(c))
           ELSE Finish(k, c, "config present")
    /\ UNCHANGED <<activation, deactivated, ignoreRootList, configList, local>>
    /\ UNCHANGED <<statusVars, findVars, runVars, opVars>>

\* extension.ts 91-98, 46-51: configGet('local', 'user.name') settles
NameDone(k, ok) ==
    /\ checks[k].pc = "name"
    /\ ok => local["user.name"] # Unset
    /\ LET c == [checks[k] EXCEPT !.nameRead = IF ok THEN "read" ELSE "failed"]
       IN  IF StartsFlow(IF ok THEN "GitConfig" ELSE Null) THEN Goto(k, EnterFlow(c))
           ELSE Finish(k, c, "config present")
    /\ UNCHANGED <<activation, deactivated, ignoreRootList, configList, local>>
    /\ UNCHANGED <<statusVars, findVars, runVars, opVars>>

\* extension.ts 143: customSetGitConfig up to the await of the e-mail input box
AskEmail(c) == [c EXCEPT !.pc = "inputEmail", !.prompts = @ + 1]

\* extension.ts 118-123, 154-169: the flow's findRepositoryRoot settles; with a
\* root the saved configs are read and the quick pick or the input box opened
FlowRootDone(k, r) ==
    /\ checks[k].pc = "flowRoot"
    /\ LET c == checks[k]
       IN  IF r = Null THEN Finish(k, c, "flow done")
           ELSE IF Len(configList) # 0
                THEN Goto(k, [c EXCEPT !.pc = "pick", !.prompts = @ + 1, !.list = configList])
                ELSE Goto(k, [AskEmail(c) EXCEPT !.list = configList])
    /\ UNCHANGED <<activation, deactivated, ignoreRootList, configList, local>>
    /\ UNCHANGED <<statusVars, findVars, runVars, opVars>>

\* extension.ts 134-138: the message the inner setGitConfig shows when it
\* leaves its try block
Failure(c) == [c EXCEPT !.shown = "error"]
Success(c) == [c EXCEPT !.shown = "success"]

\* extension.ts 124-133: the inner setGitConfig(newConfig) up to its first await:
\* a config whose key is not saved is pushed and the list persisted
StartSet(c, newConfig) ==
    IF ~HasKey(c.list, generateGitConfigKey(newConfig))
    THEN [c EXCEPT !.pc = "saveList", !.newConfig = newConfig,
                   !.list = Append(@, newConfig)]
    ELSE [c EXCEPT !.pc = "writeEmail", !.newConfig = newConfig]

\* extension.ts 159-166: the quick pick settles with a key, or with undefined
\* when it is dismissed (generateGitConfigKey(undefined) then throws inside
\* the inner try block)
PickDone(k, pick) ==
    /\ checks[k].pc = "pick"
    /\ pick \in PickKeys(checks[k].list) \cup {Undefined}
    /\ LET c == checks[k]
       IN  IF pick = generateGitConfigKey(CUSTOM_GIT_CONFIG) THEN Goto(k, AskEmail(c))
           ELSE IF pick = generateGitConfigKey(IGNORE_CURRENT_ROOT_GIT_CONFIG)
                THEN Goto(k, [c EXCEPT !.pc = "ignoreRoot"])
           ELSE IF pick = Undefined THEN Finish(k, Failure(c), "flow done")
           ELSE Goto(k, StartSet(c, MapGet(c.list, pick)))
    /\ UNCHANGED <<activation, deactivated, ignoreRootList, configList, local>>
    /\ UNCHANGED <<statusVars, findVars, runVars, opVars>>

\* extension.ts 143-147: the e-mail input box settles; the name box opens
InputEmailDone(k, v) ==
    /\ checks[k].pc = "inputEmail"
    /\ Goto(k, [checks[k] EXCEPT !.pc = "inputName", !.userEmail = v, !.prompts = @ + 1])
    /\ UNCHANGED <<activation, deactivated, ignoreRootList, configList, local>>
    /\ UNCHANGED <<statusVars, findVars, runVars, opVars>>

\* extension.ts 147-152: the name input box settles
InputNameDone(k, v) ==
    /\ checks[k].pc = "inputName"
    /\ Goto(k, StartSet(checks[k], GitConfig(checks[k].userEmail, v)))
    /\ UNCHANGED <<activation, deactivated, ignoreRootList, configList, local>>
    /\ UNCHANGED <<statusVars, findVars, runVars, opVars>>

\* extension.ts 129-137, config.ts 59-61: updateConfigList settles
SaveListDone(k, ok) ==
    /\ checks[k].pc = "saveList"
    /\ LET c == checks[k]
       IN  IF ok
           THEN /\ configList' = c.list
                /\ Goto(k, [c EXCEPT !.pc = "writeEmail", !.wrote = @ \cup {"configList"}])
           ELSE /\ UNCHANGED configList
                /\ Finish(k, Failure(c), "flow done")
    /\ UNCHANGED <<activation, deactivated, ignoreRootList, local>>
    /\ UNCHANGED <<statusVars, findVars, runVars, opVars>>

\* git.ts 428-439: `git config --local key value` sets the key, and
\* `git config --local key`, which config runs for a falsy value, prints it
Sets(key, value) == ConfigArgs("local", key, value) = <<"config", "--local", key, value>>

\* what the command does to the local config when it exits with 0
AfterConfig(key, value) ==
    IF Sets(key, value) THEN [local EXCEPT ![key] = value] ELSE local

\* whether the command can exit with 0: a key that is printed has to be set
CanConfig(key, value) == Sets(key, value) \/ local[key] # Unset

\* extension.ts 132-137: repository.config('local', 'user.email', ..) settles
WriteEmailDone(k, ok) ==
    /\ checks[k].pc = "writeEmail"
    /\ ok => CanConfig("user.email", checks[k].newConfig["user.email"])
    /\ LET c == checks[k]
       IN  IF ok
           THEN /\ local' = AfterConfig("user.email", c.newConfig["user.email"])
                /\ Goto(k, [c EXCEPT !.pc = "writeName",
                                     !.wrote = @ \cup (IF Sets("user.email", c.newConfig["user.email"])
                                                        THEN {"user.email"} ELSE {})])
           ELSE /\ UNCHANGED local
                /\ Finish(k, Failure(c), "flow done")
    /\ UNCHANGED <<activation, deactivated, ignoreRootList, configList>>
    /\ UNCHANGED <<statusVars, findVars, runVars, opVars>>

\* extension.ts 133-139: repository.config('local', 'user.name', ..) settles
WriteNameDone(k, ok) ==
    /\ checks[k].pc = "writeName"
    /\ ok => CanConfig("user.name", checks[k].newConfig["user.name"])
    /\ LET c == checks[k]
       IN  IF ok
           THEN /\ local' = AfterConfig("user.name", c.newConfig["user.name"])
                /\ Finish(k, Success([c EXCEPT !.wrote = @ \cup (IF Sets("user.name", c.newConfig["user.name"])
                                                                   THEN {"user.name"} ELSE {})]),
                          "flow done")
           ELSE /\ UNCHANGED local
                /\ Finish(k, Failure(c), "flow done")
    /\ UNCHANGED <<activation, deactivated, ignoreRootList, configList>>
    /\ UNCHANGED <<statusVars, findVars, runVars, opVars>>

\* extension.ts 163, 187-189, 101-106, config.ts 37-39: the ignore command's
\* findRepositoryRoot settles; with a root, addRootToIgnoreList reads the list
\* and starts the update of the settings
IgnoreRootDone(k, r) ==
    /\ checks[k].pc = "ignoreRoot"
    /\ LET c == checks[k]
       IN  IF r = Null THEN Finish(k, c, "flow done")
           ELSE Goto(k, [c EXCEPT !.pc = "ignoreWrite",
                                  !.roots = AddRoot(ignoreRootList, r)])
    /\ UNCHANGED <<activation, deactivated, ignoreRootList, configList, local>>
    /\ UNCHANGED <<statusVars, findVars, runVars, opVars>>

\* config.ts 33-39, extension.ts 55-56: the update of the ignore list settles;
\* its rejection is thrown by executeCommand and caught by the check
IgnoreWriteDone(k, ok) ==
    /\ checks[k].pc = "ignoreWrite"
    /\ LET c == checks[k]
       IN  IF ok
           THEN /\ ignoreRootList' = c.roots
                /\ Finish(k, [c EXCEPT !.wrote = @ \cup {"ignoreRootList"}], "flow done")
           ELSE /\ UNCHANGED ignoreRootList
                /\ Finish(k, c, "caught error")
    /\ UNCHANGED <<activation, deactivated, configList, local>>
    /\ UNCHANGED <<statusVars, findVars, runVars, opVars>>

\* extension.ts 101-115, 187-193: the ignore command (kind "add") or the
\* unignore command (kind "remove") runs as operation o; findRepositoryRoot
\* gave root, and config.ts 33-45 reads the list from the settings, computes
\* the new list and starts its update
Issue(o, kind, root) ==
    /\ ops[o].pc = "none"
    /\ IF o = 1 THEN TRUE ELSE ops[o - 1].pc # "none"
    /\ ops' = [ops EXCEPT ![o] =
            [kind |-> kind, root |-> root, pc |-> "writing",
             roots |-> IF kind = "add" THEN AddRoot(ignoreRootList, root)
                       ELSE RemoveRoot(ignoreRootList, root)]]
    /\ UNCHANGED pollVars
    /\ UNCHANGED <<statusVars, findVars, runVars>>

\* config.ts 33-35: the update started by operation o settles; the settings
\* hold the written list from here on. The updates settle in the order in
\* which they were started.
UpdateDone(o, ok) ==
    /\ ops[o].pc = "writing"
    /\ \A j \in Ops : j < o => ops[j].pc # "writing"
    /\ ops' = [ops EXCEPT ![o].pc = IF ok THEN "done" ELSE "failed",
                          ![o].roots = NoOp.roots]
    /\ ignoreRootList' = IF ok THEN ops[o].roots ELSE ignoreRootList
    /\ UNCHANGED <<activation, deactivated, timeoutId, timers, checks, configList, local>>
    /\ UNCHANGED <<statusVars, findVars, runVars>>

\* the roots the commands can run in
OpRoots == {"/repo", "/other"}

NextIgnore ==
    \E o \in Ops :
        \/ \E r \in OpRoots : Issue(o, "add", r)
        \/ \E r \in OpRoots : Issue(o, "remove", r)
        \/ \E ok \in BOOLEAN : UpdateDone(o, ok)

\* what the input boxes can settle with: dismissed, left empty, or a text
InputValues == {Undefined, "", "Tom"}
\* what findRepositoryRoot can settle with
RootResults == Roots \cup {Null}
\* what the quick pick can settle with, when it is offered
PickResults ==
    {generateGitConfigKey(GitConfig(e, n)) : e \in InputValues, n \in InputValues}
        \cup PickKeys(<<>>) \cup {Undefined}

\* the steps of the extension, with the given answers of the input boxes and
\* of the quick pick
NextExtension(inputs, picks) ==
    \/ Activate
    \/ \E ok \in BOOLEAN : Located(ok)
    \/ Deactivate
    \/ \E t \in Polls : TimerFires(t)
    \/ \E k \in Polls :
        \/ \E r \in RootResults : RootDone(k, r)
        \/ \E ok \in BOOLEAN : EmailDone(k, ok)
        \/ \E ok \in BOOLEAN : NameDone(k, ok)
        \/ \E r \in RootResults : FlowRootDone(k, r)
        \/ \E pick \in picks : PickDone(k, pick)
        \/ \E v \in inputs : InputEmailDone(k, v)
        \/ \E v \in inputs : InputNameDone(k, v)
        \/ \E ok \in BOOLEAN : SaveListDone(k, ok)
        \/ \E ok \in BOOLEAN : WriteEmailDone(k, ok)
        \/ \E ok \in BOOLEAN : WriteNameDone(k, ok)
        \/ \E r \in RootResults : IgnoreRootDone(k, r)
        \/ \E ok \in BOOLEAN : IgnoreWriteDone(k, ok)

NextPoll == NextExtension(InputValues, PickResults)

\* the extension with the ignore and unignore commands run by the user at any
\* time in the root of the workspace; the input boxes are answered with a
\* text, the quick pick is dismissed or answered with "Ignore current root"
NextIgnored ==
    \/ NextExtension({"Tom"}, {Undefined, generateGitConfigKey(IGNORE_CURRENT_ROOT_GIT_CONFIG)})
    \/ \E o \in Ops :
        \/ \E r \in Roots : Issue(o, "add", r)
        \/ \E r \in Roots : Issue(o, "remove", r)
        \/ \E ok \in BOOLEAN : UpdateDone(o, ok)

(***************************************************************************)
(* Specifications                                                          *)
(***************************************************************************)
\* concurrent invocations of the runner
Init == InitRun({HostEnv}, {EmptyEnv}) /\ IdleStatus /\ IdleFind /\ IdlePoll
Spec == Init /\ [][Next]_vars

\* one invocation, over every environment of the process, the handle and the call
InitEnv == InitRun(EnvMaps("inherited"), EnvMaps("handle")) /\ IdleStatus /\ IdleFind /\ IdlePoll
SpecEnv == InitEnv /\ [][NextEnv]_vars

\* one invocation, over every combination of the phrases in stderr
SpecClassify == Init /\ [][NextClassify]_vars

\* one invocation through Repository.configGet or Repository.config
SpecConfig == Init /\ [][NextConfig]_vars

\* the status parser, over synthetic and arbitrary texts
InitParse == InitStatus /\ IdleFind /\ IdleRun /\ IdlePoll
SpecStatus == InitParse /\ [][NextStatus]_vars

\* the locator, over every platform, hint and set of Windows bases
InitLocate == InitFind /\ IdleStatus /\ IdleRun /\ IdlePoll
SpecFind == InitLocate /\ [][NextFind]_vars

\* the ignore and unignore commands, over every list of ignored roots
InitIgnore ==
    /\ IdleStatus /\ IdleFind /\ IdleRun
    /\ activation = "active" /\ deactivated = FALSE
    /\ timeoutId = 0 /\ timers = {}
    /\ checks = [k \in Polls |-> NoCheck]
    /\ ignoreRootList \in SUBSET OpRoots
    /\ configList = <<>>
    /\ local = [k \in Keys |-> Unset]
    /\ ops = [o \in Ops |-> NoOp]
SpecIgnore == InitIgnore /\ [][NextIgnore]_vars

\* the extension from activation on, over every outcome of its queries and prompts
InitExtension == InitPoll /\ IdleStatus /\ IdleFind /\ IdleRun
SpecPoll == InitExtension /\ [][NextPoll]_vars

\* the extension from activation on, with the ignore and unignore commands
InitIgnored == InitExtension /\ local = [k \in Keys |-> Unset]
SpecIgnored == InitIgnored /\ [][NextIgnored]_vars

(***************************************************************************)
(* Claims about the process runner                                         *)
(***************************************************************************)
Settled(n) == callState[n] \in {"fulfilled", "rejected"}

\* the subprocess of invocation n finished and the call has been answered
Finished(n) == exitP[n].state = "resolved" /\ Settled(n)

\* C1: a call whose subprocess finished returns an ExecutionResult only for
\* exit code 0; for any other exit status it rejects with a GitError carrying
\* the exit code, the captured stdout and stderr and args[0].
C1_ResultOnlyForExitZero ==
    \A n \in Inv :
        /\ callState[n] = "fulfilled"
              => callValue[n].kind = "ExecutionResult" /\ callValue[n].exitCode = 0
        /\ (Finished(n) /\ exitP[n].code # 0)
              => /\ callState[n] = "rejected"
                 /\ callValue[n].kind = "GitError"
                 /\ callValue[n].exitCode = exitP[n].code
                 /\ callValue[n].stdout = JoinChunks(outBuf[n])
                 /\ callValue[n].stderr = JoinChunks(errBuf[n])
                 /\ callValue[n].gitCommand = call[n].args[1]

\* C2: when the child emits 'error' instead of 'exit', the call fails with a
\* GitError and with no other kind of error value.
C2_SpawnErrorIsGitError ==
    \A n \in Inv :
        exitP[n].state = "rejected"
            => callState[n] = "rejected" /\ callValue[n].kind = "GitError"

\* the value the caller supplied for variable v: the handle's env map over options.env
CallerSupplies(n, v) == v \in DOMAIN repoEnv \cup DOMAIN call[n].env
CallerValue(n, v) == IF v \in DOMAIN repoEnv THEN repoEnv[v] ELSE call[n].env[v]
IsFixed(v) == v \in {"VSCODE_GIT_COMMAND", "LANG"}
FixedValue(n, v) == IF v = "LANG" THEN "en_US.UTF-8" ELSE call[n].args[1]
ChildHas(n, v, value) == v \in DOMAIN childEnv[n] /\ childEnv[n][v] = value
Inherited(n, v) ==
    IF v \in DOMAIN procEnv THEN ChildHas(n, v, procEnv[v]) ELSE v \notin DOMAIN childEnv[n]

\* C3 as stated: in the child's environment a caller-supplied value wins over
\* the two fixed variables, which win over the inherited environment.
C3_CallerOverridesWin ==
    \A n \in Inv : callState[n] # "idle" =>
        \A v \in EnvNames :
            IF CallerSupplies(n, v) THEN ChildHas(n, v, CallerValue(n, v))
            ELSE IF IsFixed(v) THEN ChildHas(n, v, FixedValue(n, v))
            ELSE Inherited(n, v)

\* C3 as amended: the two fixed variables win over every other source; for
\* any other name a caller-supplied value (the handle's over options.env) wins
\* over the inherited environment.
C3_FixedVariablesWin ==
    \A n \in Inv : callState[n] # "idle" =>
        \A v \in EnvNames :
            IF IsFixed(v) THEN ChildHas(n, v, FixedValue(n, v))
            ELSE IF CallerSupplies(n, v) THEN ChildHas(n, v, CallerValue(n, v))
            ELSE Inherited(n, v)

C3_Witness ==
    /\ callState[1] # "idle"
    /\ DOMAIN procEnv = EnvNames
    /\ DOMAIN call[1].env = EnvNames
    /\ DOMAIN repoEnv = {"GIT_ASKPASS"}
    /\ childEnv[1]["LANG"] = "en_US.UTF-8"
    /\ childEnv[1]["GIT_ASKPASS"] = "handle"

\* the kinds in the order _exec is to prefer them
KindOrder ==
    <<"AuthenticationFailed", "NotAGitRepository", "BadConfigFile", "CantCreatePipe",
      "RepositoryNotFound", "CantAccessRemote">>
Rank(kind) == CHOOSE k \in 1..Len(KindOrder) : KindOrder[k] = kind
KindOfPhrase(p) ==
    CASE p = "Authentication failed" -> "AuthenticationFailed"
      [] p = "Not a git repository" -> "NotAGitRepository"
      [] p = "bad config file" -> "BadConfigFile"
      [] p \in {"cannot make pipe for command substitution",
                "cannot create standard input pipe"} -> "CantCreatePipe"
      [] p = "Repository not found" -> "RepositoryNotFound"
      [] p = "unable to access" -> "CantAccessRemote"
KindsIn(text) == {KindOfPhrase(text[k]) : k \in {j \in 1..Len(text) : text[j] \in Phrases}}

\* C4: a run that ended with a non-zero exit code fails with a GitError whose
\* kind is that of the earliest phrase, in the fixed order, among those stderr
\* contains, and is unset when stderr contains none; exit code, stdout and
\* stderr are attached either way.
C4_EarliestKindWins ==
    \A n \in Inv :
        (Finished(n) /\ Truthy(exitP[n].code)) =>
            LET e == callValue[n]
                ks == KindsIn(JoinChunks(errBuf[n]))
            IN  /\ e.kind = "GitError"
                /\ e.exitCode = exitP[n].code
                /\ e.stdout = JoinChunks(outBuf[n])
                /\ e.stderr = JoinChunks(errBuf[n])
                /\ IF ks = {} THEN e.gitErrorCode = "undefined"
                   ELSE /\ e.gitErrorCode \in ks
                        /\ \A k \in ks : Rank(e.gitErrorCode) <= Rank(k)

C4_Witness ==
    /\ Finished(1) /\ Truthy(exitP[1].code)
    /\ callValue[1].kind = "GitError"
    /\ callValue[1].gitErrorCode = "NotAGitRepository"
    /\ Test({"unable to access"}, callValue[1].stderr)
    /\ Test({"bad config file"}, callValue[1].stderr)
    /\ Test({"cannot create standard input pipe"}, callValue[1].stderr)
    /\ callValue[1].stderr[1] = "unable to access"

AllThreeSignals(n) ==
    (child[n].exit \/ child[n].error) /\ child[n].outClosed /\ child[n].errClosed

C6_ListenersReleased ==
    \A n \in Inv : Settled(n) => listeners[n] = {}

\* C16: a call that does not suppress logging has emitted the command line
\* 'git' followed by its arguments by the time its subprocess is spawned, and
\* a failed one has emitted the captured stderr after it by the time the
\* failure reaches the caller; a call that suppresses logging emits nothing.
C16_LoggedBeforeSpawnAndFailure ==
    \A n \in Inv :
        /\ callState[n] # "idle" =>
                IF call[n].log
                THEN /\ Len(output[n]) >= 1
                     /\ output[n][1] = [line |-> "command", text |-> <<"git">> \o call[n].args]
                ELSE output[n] = <<>>
        /\ (callState[n] = "rejected" /\ call[n].log) =>
                /\ Len(output[n]) = 2
                /\ output[n][2] = [line |-> "stderr", text |-> JoinChunks(errBuf[n])]

\* how often cp.spawn was called for invocation n
Spawns(n) == Cardinality({k \in 1..Len(spawned) : spawned[k] = n})

\* the next call to be made is invocation n
NextCall(n) == callState[n] = "idle" /\ (IF n = 1 THEN TRUE ELSE callState[n - 1] # "idle")

\* C17: every run or stream call has spawned exactly one subprocess, whatever
\* became of it (a failed invocation is not spawned again), and a call is
\* accepted and spawned in every state of the invocations before it: nothing
\* queues or locks.
C17_OneSpawnPerCall ==
    \A n \in Inv :
        /\ Spawns(n) = (IF callState[n] = "idle" THEN 0 ELSE 1)
        /\ NextCall(n) =>
                /\ ENABLED Run(n, <<"status">>, TRUE, EmptyEnv)
                /\ ENABLED Stream(n, <<"log">>, TRUE, EmptyEnv)

C17_Witness ==
    /\ spawned = <<1, 2>>
    /\ callState[1] = "pending" /\ ~child[1].exit /\ ~child[1].error
    /\ callState[2] = "rejected" /\ callValue[2].kind = "GitError"

\* C18: configGet runs 'config', '--<scope>' when a scope is given, '--get',
\* key; config runs 'config', '--<scope>' when a scope is given, key, and value
\* when a value is given; each returns the stdout of the invocation when it
\* was successful, and fails with a GitError otherwise.
C18_ConfigCalls ==
    \A n \in Inv : method[n].name \in {"configGet", "config"} =>
        LET m == method[n]
            flag == IF m.scope \in {"local", "global"} THEN <<"--" \o m.scope>> ELSE <<>>
            rest == IF m.name = "configGet" THEN <<"--get", m.key>>
                    ELSE IF m.value \in {Undefined, ""} THEN <<m.key>>
                    ELSE <<m.key, m.value>>
        IN  /\ call[n].args = <<"config">> \o flag \o rest
            /\ Settled(n) =>
                    IF exitP[n].state = "resolved" /\ exitP[n].code = 0
                    THEN callState[n] = "fulfilled" /\ MethodValue(n) = JoinChunks(outBuf[n])
                    ELSE callState[n] = "rejected" /\ MethodValue(n).kind = "GitError"

(***************************************************************************)
(* Claims about the status parser (checked under SpecStatus)               *)
(***************************************************************************)
\* the text is the serialisation of the known record list
Synthetic == status = Serialise(recs)

\* a record whose path ends in the path separator
DirectoryRecord(r) == r.path # <<>> /\ r.path[Len(r.path)] = "/"
KeptRecord(r) == ~DirectoryRecord(r)

NoRenameMarker(rs) == \A k \in 1..Len(rs) : rs[k].x # "R"

\* C7: the parser terminates on every finite text: once the cursor has reached
\* the end of the input, a field scan in progress stops with the next step
\* (the cursor does not go on past the end).
C7_ScanStopsAtInputEnd ==
    [][(ppc \in {"rename", "path"} /\ i >= Len(status))
            => ppc' \notin {"rename", "path"}]_vars

\* C8: for a text serialised from records without rename marker, the parser
\* returns exactly the records whose path does not end in '/', in input order
\* and unchanged; their number is the record count minus the directory markers.
C8_RoundTrip ==
    (ppc = "done" /\ Synthetic /\ NoRenameMarker(recs))
        => /\ result = SelectSeq(recs, KeptRecord)
           /\ Len(result) =
                Len(recs) - Cardinality({k \in 1..Len(recs) : DirectoryRecord(recs[k])})

C8_Witness ==
    /\ ppc = "done" /\ Synthetic /\ NoRenameMarker(recs)
    /\ Len(recs) = 2
    /\ DirectoryRecord(recs[1]) /\ recs[2].path = <<>>
    /\ Len(result) = 1

\* C9: between two records the cursor stands on the first character of the next
\* record: an index status R has consumed the prefix and two fields (rename,
\* then path), any other index status the prefix and one field, whatever the
\* worktree status; the entries carry exactly the fields of their records.
C9_RenameFields ==
    (ppc \in {"loop", "done"} /\ Synthetic)
        => \E k \in 0..Len(recs) :
              /\ i = Len(Serialise(SubSeq(recs, 1, k)))
              /\ result = SelectSeq(SubSeq(recs, 1, k), KeptRecord)
              /\ ppc = "done" => k = Len(recs)

C9_Witness ==
    /\ ppc = "done" /\ Synthetic
    /\ Len(recs) = 2
    /\ recs[1].x = "R" /\ recs[1].rename = Present(<<"b">>) /\ recs[1].path = <<"a">>
    /\ recs[2].x = "M" /\ recs[2].y = "R"
    /\ Len(result) = 2
    /\ result[1].rename = Present(<<"b">>) /\ result[1].path = <<"a">>
    /\ result[2].rename = Absent

(***************************************************************************)
(* Claims about the locator (checked under SpecFind)                       *)
(***************************************************************************)
HintSpawnError == first.state = "rejected" /\ first.reason.kind = "SpawnError"

\* what the platform's strategy starts with, when it starts anything
PlatformFirst ==
    CASE platform = "darwin" -> {"which git"}
      [] platform = "win32" ->
            {"ProgramW6432", "ProgramFiles(x86)", "ProgramFiles", "git", "readdir GitHub"}
      [] OTHER -> {"git"}

\* C10 as stated: findGit with a hint that fails with a spawn error fails and
\* starts no platform-specific strategy after the failed hint.
C10_NoFallbackAfterHintError ==
    HintSpawnError
        => /\ probes = <<"hint">>
           /\ fpc = "done" /\ found.state = "rejected"

\* C10 as amended: findGit with a hint that fails with a spawn error drops that
\* error and starts the platform's strategy; it fails only when that strategy
\* fails, with the strategy's failure, and otherwise returns what it found.
C10_HintErrorFallsBack ==
    HintSpawnError
        => /\ Len(probes) >= 2 /\ probes[1] = "hint" /\ probes[2] \in PlatformFirst
           /\ found.state = "rejected" => found.reason.of # "hint"
           /\ found.state = "fulfilled" => found.path # hint

C10_Witness ==
    /\ HintSpawnError
    /\ platform = "win32"
    /\ probes = <<"hint", "ProgramFiles(x86)", "git">>
    /\ fpc = "done" /\ found.state = "fulfilled" /\ found.path = "git"

\* ---- the outcomes recorded in `settled`
Succeeded(what) == \E k \in 1..Len(settled) : settled[k] = [of |-> what, ok |-> TRUE]
Failed(what) == \E k \in 1..Len(settled) : settled[k] = [of |-> what, ok |-> FALSE]

\* C11: when the version query of a given hint succeeds, findGit returns the
\* handle for the hint's path, and the hint's probe is the only subprocess the
\* call has started: no platform-specific probe is started.
C11_HintSuccessReturnsHint ==
    Succeeded("hint")
        => /\ probes = <<"hint">>
           /\ fpc = "done"
           /\ found.state = "fulfilled" /\ found.path = hint

C11_Witness ==
    /\ Succeeded("hint")
    /\ platform = "win32" /\ envSet = WinEnvNames
    /\ hint = "/hint/git"
    /\ found.state = "fulfilled" /\ found.path = "/hint/git"

\* the Windows candidates in the order the claim gives
WinOrder == <<"ProgramW6432", "ProgramFiles(x86)", "ProgramFiles", "git", "PortableGit">>
WinRank(c) == CHOOSE k \in 1..Len(WinOrder) : WinOrder[k] = c
\* the candidate a started subprocess or directory read belongs to
CandidateOf(p) == IF p = "readdir GitHub" THEN "PortableGit" ELSE p
\* what the Windows chain has started, in order
WinStarted == SelectSeq(probes, LAMBDA p : p # "hint")
\* candidate c was not found: its base is missing, its probe failed to spawn
\* or exited non-zero, or the portable directory could not be used
NotFound(c) ==
    \/ c \in {"ProgramW6432", "ProgramFiles(x86)", "ProgramFiles"} /\ c \notin envSet
    \/ Failed(c)
    \/ c = "PortableGit" /\ Failed("readdir GitHub")

\* C12: on Windows the candidates are started in the order of WinOrder, each
\* only after every earlier candidate was not found (missing base, spawn
\* error, non-zero version query); the result is the first candidate that
\* succeeds, and nothing is started after a success.
C12_WindowsOrder ==
    (platform = "win32" /\ fpc # "idle")
        => /\ \A j, k \in 1..Len(WinStarted) :
                j < k => /\ WinRank(CandidateOf(WinStarted[j])) <= WinRank(CandidateOf(WinStarted[k]))
                         /\ WinStarted[j] # WinStarted[k]
           /\ \A k \in 1..Len(WinStarted) : \A r \in 1..Len(WinOrder) :
                r < WinRank(CandidateOf(WinStarted[k])) => NotFound(WinOrder[r])
           /\ \A r \in 1..Len(WinOrder) :
                Succeeded(WinOrder[r])
                    => /\ WinStarted[Len(WinStarted)] = WinOrder[r]
                       /\ settled[Len(settled)] = [of |-> WinOrder[r], ok |-> TRUE]
                       /\ fpc = "done"
                       /\ found.state = "fulfilled" /\ found.path = WinOrder[r]
           /\ found.state = "fulfilled" /\ ~Succeeded("hint")
                    => Succeeded(found.path) /\ found.path = WinStarted[Len(WinStarted)]

C12_Witness ==
    /\ platform = "win32" /\ envSet = {"ProgramFiles(x86)", "ProgramFiles", "LOCALAPPDATA"}
    /\ hint = "undefined"
    /\ probes = <<"ProgramFiles(x86)", "ProgramFiles", "git", "readdir GitHub", "PortableGit">>
    /\ settled[1] = [of |-> "ProgramFiles(x86)", ok |-> FALSE]
    /\ fpc = "done" /\ found.state = "fulfilled" /\ found.path = "PortableGit"

\* C13: findGit(undefined) on a host where every strategy of the platform
\* fails, fails with a failure classified GitNotFound, on every platform.
C13_FailureIsGitNotFound ==
    (~HintGiven(hint) /\ fpc = "done" /\ found.state = "rejected")
        => found.reason.kind = "GitNotFound"

\* C15: on macOS, with git resolved to the stub path, whenever the
\* developer-tools check (xcode-select -p) fails, with any error, the locate
\* fails and the version query is not run.
C15_StubNeedsDeveloperTools ==
    (platform = "darwin" /\ gitPath = StubPath /\ Failed("xcode-select -p"))
        => /\ fpc = "done" /\ found.state = "rejected"
           /\ \A k \in 1..Len(probes) : probes[k] # "git --version"

(***************************************************************************)
(* Claims about the extension (checked under SpecPoll)                     *)
(***************************************************************************)
\* C14: a poll check that found a repository root outside the ignore list
\* reads the local identity; when user.email or user.name could not be read it
\* has started the set-config flow, on this poll and on every later one alike;
\* when both were read it finishes with no flow, no prompt and no write.
C14_UnreadableIdentityStartsFlow ==
    \A k \in Polls :
        LET c == checks[k]
        IN  (c.pc \notin {"none", "root"} /\ c.root \in Roots /\ c.outcome # "ignored root")
                => /\ c.pc = "email" \/ c.emailRead # "none"
                   /\ c.emailRead = "read" => (c.pc = "name" \/ c.nameRead # "none")
                   /\ (c.emailRead = "failed" \/ c.nameRead = "failed") => c.flow
                   /\ (c.emailRead = "read" /\ c.nameRead = "read")
                        => /\ c.pc = "done" /\ c.outcome = "config present"
                           /\ ~c.flow /\ c.prompts = 0 /\ c.wrote = {}

C14_Witness ==
    /\ checks[1].pc = "done" /\ checks[1].emailRead = "failed"
    /\ checks[1].flow /\ checks[1].prompts >= 1
    /\ checks[2].emailRead = "read" /\ checks[2].nameRead = "failed"
    /\ checks[2].flow /\ checks[2].prompts >= 1
    /\ local["user.name"] = Unset

\* the poll checks that have started
Started == {k \in Polls : checks[k].pc # "none"}

\* C19: once deactivate has been called no timer is armed and no further poll
\* check starts, whenever it was called.
C19_NoPollAfterDeactivate ==
    /\ [](deactivated => timers = {})
    /\ [][deactivated => Started' = Started]_vars

\* C20: between activation and deactivation exactly one poll check is pending
\* on the timer or in flight; the timer armed is the one set last, and it has
\* been set once more by every check that finished, whatever its outcome.
C20_OnePollAtATime ==
    (activation = "active" /\ ~deactivated)
        => /\ Cardinality(timers) + Cardinality({k \in Polls : InFlight(checks[k])}) = 1
           /\ timers \subseteq {timeoutId}
           /\ timeoutId = 1 + Cardinality({k \in Polls : checks[k].pc = "done"})

C20_Witness ==
    /\ activation = "active" /\ ~deactivated
    /\ checks[1].outcome = "caught error"
    /\ checks[2].outcome = "config present"
    /\ timers = {3}

(***************************************************************************)
(* Claims about the ignore list and the set-config flow                    *)
(***************************************************************************)
\* some operation added root r / removed root r
Added(r) == \E o \in Ops : ops[o].kind = "add" /\ ops[o].root = r
Removed(r) == \E o \in Ops : ops[o].kind = "remove" /\ ops[o].root = r

\* every operation that was issued has completed its write
AllCompleted == \A o \in Ops : ops[o].pc \in {"none", "done"}

\* C21: when several addRootToIgnoreList / removeRootFromIgnoreList operations
\* were issued, in any interleaving of their reads of the settings and their
\* asynchronous writes, then once all of them have completed every root that
\* was added and not removed is in the ignore list and every root that was
\* removed and not added is absent: no update is lost.
C21_NoUpdateLost ==
    AllCompleted =>
        \A r \in OpRoots :
            /\ (Added(r) /\ ~Removed(r)) => r \in ignoreRootList
            /\ (Removed(r) /\ ~Added(r)) => r \notin ignoreRootList

\* check c read nothing, opened no prompt and wrote nothing
Untouched(c) ==
    /\ c.emailRead = "none" /\ c.nameRead = "none"
    /\ ~c.flow /\ c.prompts = 0 /\ c.wrote = {}

\* C22: a poll check whose root is in the ignore list when the check tests it
\* ends there: it reads no local config value, opens no prompt and writes
\* neither the git config nor the saved config list; a check whose root is not
\* in the list at its test, also after the root was removed from the list,
\* goes on to read the local config like a check of any other root.
C22_IgnoredRootUntouched ==
    /\ [](\A k \in Polls :
            checks[k].outcome = "ignored root"
                => checks[k].pc = "done" /\ Untouched(checks[k]))
    /\ [][\A k \in Polls :
            (checks[k].pc = "root" /\ checks'[k].pc # "root" /\ checks'[k].root # Null)
                => IF checks'[k].root \in ignoreRootList
                   THEN checks'[k].outcome = "ignored root" /\ Untouched(checks'[k])
                   ELSE checks'[k].pc = "email"]_vars

\* C22, as stated: while the root of a poll check is in the ignore list the
\* check starts no read of the local config, opens no prompt and starts no
\* write of the git config or of the saved config list.
C22_NoStepWhileIgnored ==
    [][\A k \in Polls :
        (checks[k].root \in ignoreRootList /\ checks'[k].pc # checks[k].pc)
            => checks'[k].pc \notin {"name", "pick", "inputEmail", "inputName",
                                     "saveList", "writeEmail", "writeName"}]_vars

\* a check found its root ignored, the unignore command removed the root and
\* a later check read the local config
C22_Witness ==
    \E k1, k2 \in Polls :
        /\ k1 < k2
        /\ checks[k1].outcome = "ignored root"
        /\ checks[k2].emailRead # "none"
        /\ \E o \in Ops : ops[o].kind = "remove" /\ ops[o].pc = "done"
                           /\ ops[o].root = checks[k1].root

\* C23: the set-config flow shows 'Local git config successfully set.' only
\* when the write of user.email and then the write of user.name have both
\* succeeded and the local user.email and user.name of the repository equal
\* the values of the chosen config, also when an input was left empty.
C23_SuccessMeansSet ==
    [][\A k \in Polls :
        (checks[k].shown # "success" /\ checks'[k].shown = "success")
            => /\ {"user.email", "user.name"} \subseteq checks'[k].wrote
               /\ \A key \in Keys : local'[key] = checks[k].newConfig[key]]_vars

\* the keys of the entries of a list of configs
SavedKeys(list) == {generateGitConfigKey(list[j]) : j \in 1..Len(list)}

\* no two entries of the list have the same key
NoDuplicateKeys(list) ==
    \A j1, j2 \in 1..Len(list) :
        j1 # j2 => generateGitConfigKey(list[j1]) # generateGitConfigKey(list[j2])

\* C24: after any sequence of set-config operations the persisted configList
\* holds no two entries with the same key (user.email, a space, user.name),
\* provided it held none at the start: the list changes only by the chosen
\* config being appended when no saved entry has its key, and a flow whose
\* chosen config has a saved key leaves the list unchanged.
C24_NoDuplicateKeys ==
    /\ [](NoDuplicateKeys(configList))
    /\ [][configList' # configList
            => \E k \in Polls :
                /\ generateGitConfigKey(checks[k].newConfig) \notin SavedKeys(configList)
                /\ configList' = Append(configList, checks[k].newConfig)]_vars
    /\ [][\A k \in Polls :
            (checks[k].pc \in {"pick", "inputName"} /\ checks'[k].pc \in {"saveList", "writeEmail"})
                => (checks'[k].pc = "writeEmail"
                      <=> generateGitConfigKey(checks'[k].newConfig) \in SavedKeys(configList))]_vars

\* one flow appended its config and persisted the list, and a later flow,
\* whose chosen config has a saved key, set it without touching the list
C24_Witness ==
    \E k1, k2 \in Polls :
        /\ k1 < k2
        /\ "configList" \in checks[k1].wrote
        /\ checks[k2].shown = "success" /\ "configList" \notin checks[k2].wrote
        /\ Len(configList) = 2

=============================================================================
